---- MODULE Spec2Model ----
(***************************************************************************)
(* nicerpdb: a Rich front-end over pdb.Pdb (src/src/nicerpdb/debugger.py)  *)
(* and its pytest hook (src/src/nicerpdb/__init__.py).                     *)
(*                                                                         *)
(* A Python str is a sequence of one-character strings; a literal piece of *)
(* text that holds no bracket is written as one element (a chunk).  A      *)
(* local variable's name is a sequence of code points, so that sorted()    *)
(* orders names as Python orders them.  None is 0 for a frame (frames are  *)
(* positions 1..Len(stack) of the paused program's call stack, outermost   *)
(* first, so f_back of frame i is frame i-1) and <<>> for an optional      *)
(* argument (<<v>> is the argument v).                                     *)
(***************************************************************************)
EXTENDS Integers, Sequences, FiniteSets, TLC

\* ------------------------------------------------------------------ bounds
\* Lines of the longest source file.
MaxLines == 5
\* Frames of the deepest call stack.
MaxDepth == 3
\* Lines of the longest file the excerpt harness draws.
MaxSrcLines == 3

\* ---------------------------------------------------------------- strings
Max(a, b) == IF a > b THEN a ELSE b

Min(a, b) == IF a < b THEN a ELSE b

Rep(c, n) == [i \in 1..n |-> c]

Whitespace == {" ", "\n", "\t"}

RECURSIVE LStrip(_)
LStrip(s) == IF s # <<>> /\ Head(s) \in Whitespace THEN LStrip(Tail(s)) ELSE s

RECURSIVE RStrip(_)
RStrip(s) ==
  IF s # <<>> /\ s[Len(s)] \in Whitespace THEN RStrip(SubSeq(s, 1, Len(s) - 1)) ELSE s

\* str.strip()
Strip(s) == RStrip(LStrip(s))

\* An index of s[a:b], clamped as Python clamps it.
PyIndex(n, i) == IF i < 0 THEN Max(0, n + i) ELSE Min(n, i)

\* s[a:b]
PySlice(s, a, b) == SubSeq(s, PyIndex(Len(s), a) + 1, PyIndex(Len(s), b))

\* s[:n]
PyTake(s, n) == PySlice(s, 0, n)

RECURSIVE Concat(_)
\* "".join(parts)
Concat(parts) == IF parts = <<>> THEN <<>> ELSE Head(parts) \o Concat(Tail(parts))

RECURSIVE JoinSpace(_)
\* " ".join(parts)
JoinSpace(parts) ==
  IF parts = <<>> THEN <<>>
  ELSE IF Len(parts) = 1 THEN parts[1]
  ELSE parts[1] \o <<" ">> \o JoinSpace(Tail(parts))

Digit(d) ==
  CASE d = 0 -> "0" [] d = 1 -> "1" [] d = 2 -> "2" [] d = 3 -> "3" [] d = 4 -> "4"
    [] d = 5 -> "5" [] d = 6 -> "6" [] d = 7 -> "7" [] d = 8 -> "8" [] d = 9 -> "9"

RECURSIVE Str(_)
\* str(n) of an int n >= 0
Str(n) == IF n < 10 THEN <<Digit(n)>> ELSE Str(n \div 10) \o <<Digit(n % 10)>>

RECURSIVE SplitLines(_, _)
\* The lines a listing shows for a piece of code: each "\n" ends one.
SplitLines(code, cur) ==
  IF code = <<>> THEN (IF cur = <<>> THEN <<>> ELSE <<cur>>)
  ELSE IF Head(code) = "\n" THEN <<cur>> \o SplitLines(Tail(code), <<>>)
  ELSE SplitLines(Tail(code), Append(cur, Head(code)))

RECURSIVE StrLess(_, _)
\* a < b of two str, by code point
StrLess(a, b) ==
  IF b = <<>> THEN FALSE
  ELSE IF a = <<>> THEN TRUE
  ELSE IF Head(a) # Head(b) THEN Head(a) < Head(b)
  ELSE StrLess(Tail(a), Tail(b))

RECURSIVE Insert(_, _)
Insert(p, sorted) ==
  IF sorted = <<>> THEN <<p>>
  ELSE IF StrLess(p[1], Head(sorted)[1]) THEN <<p>> \o sorted
  ELSE <<Head(sorted)>> \o Insert(p, Tail(sorted))

RECURSIVE Sorted(_)
\* sorted(d.items()): the keys of a dict differ, so the key decides.
Sorted(items) == IF items = <<>> THEN <<>> ELSE Insert(Head(items), Sorted(Tail(items)))

RECURSIVE Reverse(_)
Reverse(s) == IF s = <<>> THEN <<>> ELSE Append(Reverse(Tail(s)), Head(s))

\* ----------------------------------------------------------- Rich markup
\* The characters a markup tag may start with: [a-z#/@].
TagStart ==
  {"a", "b", "c", "d", "e", "f", "g", "h", "i", "j", "k", "l", "m", "n", "o", "p",
   "q", "r", "s", "t", "u", "v", "w", "x", "y", "z", "#", "/", "@"}

RECURSIVE FindClose(_, _)
\* The "]" that ends the tag whose text starts before j, 0 if a "[" comes first.
FindClose(s, j) ==
  IF j > Len(s) THEN 0
  ELSE IF s[j] = "]" THEN j
  ELSE IF s[j] = "[" THEN 0
  ELSE FindClose(s, j + 1)

RECURSIVE LastOpen(_, _, _)
\* The innermost open tag named `name`, 0 if there is none.
LastOpen(open, name, i) ==
  IF i = 0 THEN 0 ELSE IF open[i] = name THEN i ELSE LastOpen(open, name, i - 1)

Remove(s, i) == SubSeq(s, 1, i - 1) \o SubSeq(s, i + 1, Len(s))

RECURSIVE MarkupScan(_, _, _, _)
\* Console markup of s from position i with the tags `open` open: the text left
\* once the tags are taken out, or a MarkupError for a closing tag that closes
\* nothing.
MarkupScan(s, i, open, plain) ==
  IF i > Len(s) THEN [ok |-> TRUE, plain |-> plain]
  ELSE
    LET j == IF s[i] = "[" /\ i < Len(s) /\ s[i + 1] \in TagStart
             THEN FindClose(s, i + 2) ELSE 0
    IN  IF j = 0 THEN MarkupScan(s, i + 1, open, Append(plain, s[i]))
        ELSE
          LET tag == SubSeq(s, i + 1, j - 1)
          IN  IF Head(tag) # "/" THEN MarkupScan(s, j + 1, Append(open, Strip(tag)), plain)
              ELSE
                LET name == Strip(Tail(tag))
                    at   == IF name = <<>> THEN Len(open) ELSE LastOpen(open, name, Len(open))
                IN  IF at = 0 THEN [ok |-> FALSE, plain |-> plain]
                    ELSE MarkupScan(s, j + 1, Remove(open, at), plain)

\* What printing a str does: console.print(s) reads s as markup.
RenderMarkup(s) == MarkupScan(s, 1, <<>>, <<>>)

\* The outcome of a piece of code: what it printed, and whether it raised.
Done(items) == [items |-> items, raised |-> FALSE]

Raised(items) == [items |-> items, raised |-> TRUE]

\* console.print(s) of a str s
PrintMarkup(kind, s) ==
  LET r == RenderMarkup(s)
  IN  IF r.ok THEN Done(<<[k |-> kind, text |-> r.plain]>>) ELSE Raised(<<>>)

Tag(name) == <<"[">> \o name \o <<"]">>

Italic == Tag(<<"i", "t", "a", "l", "i", "c">>)

Red == Tag(<<"r", "e", "d">>)

Yellow == Tag(<<"y", "e", "l", "l", "o", "w">>)

CloseTag == <<"[", "/", "]">>

\* ------------------------------------------------------ the source cache
\* The files of the paused program.  "<string>" is code with no file behind it.
FileNames == {"a.py", "b.py", "<string>"}

\* A file name as the str an f-string puts into its text.
Chars(filename) ==
  CASE filename = "a.py" -> <<"a", ".", "p", "y">>
    [] filename = "b.py" -> <<"b", ".", "p", "y">>
    [] filename = "<string>" -> <<"<", "s", "t", "r", "i", "n", "g", ">">>

\* linecache.getlines(filename): the lines, each ending in "\n"; [] for a file
\* that cannot be read.
getlines(filename) ==
  CASE filename = "a.py" -> [i \in 1..MaxLines |-> <<" ", " ">> \o Rep("x", i) \o <<"\n">>]
    [] filename = "b.py" -> << <<"y", " ", "=", " ", "1", "\n">> >>
    [] filename = "<string>" -> <<>>

\* ------------------------------------------------------------ the frames
\* f_locals, in the order the names were bound: y = 'a' then x = 1; b, ab, a.
LocalsChoices ==
  { << <<(<<121>>), "'a'">>, <<(<<120>>), "1">> >>,
    << <<(<<98>>), "2">>, <<(<<97, 98>>), "3">>, <<(<<97>>), "4">> >> }

\* f_globals of the code of a file, each value as its repr.
GlobalsOf(filename) ==
  IF filename = "<string>"
  THEN ("__name__" :> "'__main__'") @@ ("other" :> "0")
  ELSE ("__name__" :> "'__main__'") @@ ("__file__" :> "'path'") @@ ("d" :> "<module>")
         @@ ("other" :> "0")

MkFrame(filename, lineno, func, locals) ==
  [file |-> filename, line |-> lineno, func |-> func, locals |-> locals,
   co_names |-> {"d", "print"}, globals |-> GlobalsOf(filename)]

\* The places the innermost frame may be paused at.
InnerSpots ==
  {<<"a.py", l>> : l \in 1..MaxLines} \cup {<<"b.py", 1>>}
    \cup {<<"<string>", 1>>}

InnerFrames == {MkFrame(s[1], s[2], "inner", ls) : s \in InnerSpots, ls \in LocalsChoices}

\* The j-th caller from the outermost.
OuterFrame(j) == MkFrame("a.py", j, IF j = 1 THEN "<module>" ELSE "outer", <<>>)

\* The call stacks of the paused program, outermost frame first.
Stacks ==
  {[j \in 1..k |-> IF j = k THEN f ELSE OuterFrame(j)] : k \in 1..MaxDepth, f \in InnerFrames}

\* ------------------------------------------------------------ load_config
DEFAULT_CONFIG == [context_lines |-> 3, show_locals |-> TRUE, show_stack |-> TRUE]

\* dict.update
DictUpdate(d, other) ==
  [key \in DOMAIN d \cup DOMAIN other |-> IF key \in DOMAIN other THEN other[key] ELSE d[key]]

\* dict.get
DictGet(d, key, default) == IF key \in DOMAIN d THEN d[key] ELSE default

\* What ~/.nicerpdb.toml may hold once parsed.
TomlDocs ==
  { <<>>,
    [context_lines |-> 1, show_stack |-> FALSE],
    [context_lines |-> 0, show_locals |-> FALSE, theme |-> TRUE] }

\* The states of ~/.nicerpdb.toml: absent; present and open() fails; present and
\* tomllib.load fails (doc: the keys before the syntax error); present and sound.
ConfigFiles ==
  {[exists |-> FALSE, readable |-> FALSE, wellformed |-> FALSE, doc |-> <<>>]}
    \cup {[exists |-> TRUE, readable |-> FALSE, wellformed |-> TRUE, doc |-> d] : d \in TomlDocs}
    \cup {[exists |-> TRUE, readable |-> TRUE, wellformed |-> FALSE, doc |-> d] : d \in TomlDocs}
    \cup {[exists |-> TRUE, readable |-> TRUE, wellformed |-> TRUE, doc |-> d] : d \in TomlDocs}

WarningText ==
  Yellow \o <<"Warning: error reading ~/.nicerpdb.toml">> \o CloseTag

\* load_config with no except clause: the failure escapes.
M_load_config(file) ==
  IF ~file.exists THEN [cfg |-> DEFAULT_CONFIG, out |-> <<>>, raised |-> FALSE]
  ELSE IF file.readable /\ file.wellformed
  THEN [cfg |-> DictUpdate(DEFAULT_CONFIG, file.doc), out |-> <<>>, raised |-> FALSE]
  ELSE [cfg |-> DEFAULT_CONFIG, out |-> <<>>, raised |-> TRUE]

\* load_config(): the mapping returned and what was printed.
load_config(file) ==
  LET cfg == DEFAULT_CONFIG
  IN  IF ~file.exists THEN [cfg |-> cfg, out |-> <<>>, raised |-> FALSE]
      ELSE IF file.readable /\ file.wellformed
      THEN [cfg |-> DictUpdate(cfg, file.doc), out |-> <<>>, raised |-> FALSE]
      ELSE LET w == PrintMarkup("warning", WarningText)
           IN  [cfg |-> cfg, out |-> w.items, raised |-> w.raised]

\* --------------------------------------------------------------- RichPdb
\* RichPdb.__init__ written with "or": a falsy argument falls through to the
\* configuration.
M_RichPdb_init(show_locals, context_lines, cfg) ==
  [show_locals   |-> IF show_locals # <<>> /\ show_locals[1] # FALSE
                     THEN show_locals[1] ELSE cfg["show_locals"],
   context_lines |-> IF context_lines # <<>> /\ context_lines[1] # 0
                     THEN context_lines[1] ELSE cfg["context_lines"],
   curframe      |-> 0,
   traced        |-> FALSE,
   args          |-> [show_locals |-> show_locals, context_lines |-> context_lines]]

\* RichPdb.__init__ and the reset() every caller makes next (Pdb.reset ends in
\* forget(), which sets curframe to None).
RichPdb_init(show_locals, context_lines, cfg) ==
  [show_locals   |-> IF show_locals # <<>> THEN show_locals[1] ELSE cfg["show_locals"],
   context_lines |-> IF context_lines # <<>> THEN context_lines[1] ELSE cfg["context_lines"],
   curframe      |-> 0,
   traced        |-> FALSE,
   args          |-> [show_locals |-> show_locals, context_lines |-> context_lines]]

\* One piece of code after another: the second runs unless the first raised.
Then(r1, r2) ==
  IF r1.raised THEN r1 ELSE [items |-> r1.items \o r2.items, raised |-> r2.raised]

\* _render_source_block with the end of the window one line short.
M_render_source_block(filename, lineno, context) ==
  LET lines == getlines(filename)
  IN  IF lines = <<>>
      THEN PrintMarkup("notice",
             Italic \o <<"Cannot read source from ">> \o Chars(filename) \o CloseTag)
      ELSE
        LET start   == Max(0, lineno - 1 - context)
            end     == Min(Len(lines), lineno - 1 + context)
            snippet == Concat(PySlice(lines, start, end))
        IN  Done(<<[k |-> "panel", title |-> Chars(filename) \o <<":">> \o Str(lineno),
                    code |-> snippet, start_line |-> start + 1,
                    highlight_lines |-> {lineno}]>>)

render_source_block(filename, lineno, context) ==
  LET lines == getlines(filename)
  IN  IF lines = <<>>
      THEN PrintMarkup("notice",
             Italic \o <<"Cannot read source from ">> \o Chars(filename) \o CloseTag)
      ELSE
        LET start   == Max(0, lineno - 1 - context)
            end     == Min(Len(lines), lineno - 1 + context + 1)
            snippet == Concat(PySlice(lines, start, end))
            title   == RenderMarkup(Chars(filename) \o <<":">> \o Str(lineno))
        IN  IF title.ok
            THEN Done(<<[k |-> "panel", title |-> title.plain, code |-> snippet,
                         start_line |-> start + 1, highlight_lines |-> {lineno}]>>)
            ELSE Raised(<<>>)

\* _render_full_file without the test for a file with no lines.
M_render_full_file(filename, lineno) ==
  Done(<<[k |-> "panel", title |-> <<"Full source: ">> \o Chars(filename),
          code |-> Concat(getlines(filename)), start_line |-> 1,
          highlight_lines |-> {lineno}]>>)

render_full_file(filename, lineno) ==
  LET lines == getlines(filename)
  IN  IF lines = <<>>
      THEN PrintMarkup("notice",
             Italic \o <<"Cannot read file ">> \o Chars(filename) \o CloseTag)
      ELSE
        LET title == RenderMarkup(<<"Full source: ">> \o Chars(filename))
        IN  IF title.ok
            THEN Done(<<[k |-> "panel", title |-> title.plain, code |-> Concat(lines),
                         start_line |-> 1, highlight_lines |-> {lineno}]>>)
            ELSE Raised(<<>>)

\* The longest context excerpt, and where a longer one is cut.
ExcerptMax == 120

ExcerptCut == 117

Ellipsis == <<".", ".", ".">>

\* The excerpt cut at 120 characters, the marker added after them.
M_Excerpt(src, ln) ==
  IF src = <<>> THEN <<>>
  ELSE
    LET part == PySlice(src, Max(0, ln - 2), Min(Len(src), ln + 1))
        ctx  == JoinSpace([i \in 1..Len(part) |-> Strip(part[i])])
    IN  IF Len(ctx) > ExcerptMax THEN PyTake(ctx, ExcerptMax) \o Ellipsis ELSE ctx

\* The context excerpt of a stack row: ctx of _render_stack.
Excerpt(src, ln) ==
  IF src = <<>> THEN <<>>
  ELSE
    LET a     == Max(0, ln - 2)
        b     == Min(Len(src), ln + 1)
        part  == PySlice(src, a, b)
        ctx   == JoinSpace([i \in 1..Len(part) |-> Strip(part[i])])
    IN  IF Len(ctx) > ExcerptMax THEN PyTake(ctx, ExcerptCut) \o Ellipsis ELSE ctx

\* cur.f_back
f_back(cur) == cur - 1

RECURSIVE Walk(_)
\* while cur: stack.append(cur); cur = cur.f_back
Walk(cur) == IF cur = 0 THEN <<>> ELSE <<cur>> \o Walk(f_back(cur))

\* _render_stack with self.curframe = curframe, in the call stack stk
render_stack(stk, curframe) ==
  LET frames == Reverse(Walk(curframe))
      rows   == [i \in 1..Len(frames) |->
                   LET fr == stk[frames[i]]
                   IN  [idx  |-> Str(i), func |-> fr.func,
                        loc  |-> Chars(fr.file) \o <<":">> \o Str(fr.line),
                        ctx  |-> Excerpt(getlines(fr.file), fr.line)]]
  IN  Done(<<[k |-> "stack_table", title |-> "Stack (most recent last)", stack_rows |-> rows]>>)

\* _render_vars printing the tables in the order it builds them.
M_render_vars(fr) ==
  LET names == fr.co_names \cup {"__name__", "__file__"}
  IN  Done(<<[k |-> "locals_table", title |-> "Locals", rows |-> Sorted(fr.locals)],
             [k |-> "globals_table", title |-> "Globals (selected)",
              global_rows |-> {<<n, fr.globals[n]>> : n \in names \cap DOMAIN fr.globals}]>>)

\* _render_vars(frame): the globals table is printed first.  A set has no
\* order of iteration to rely on, so the globals' rows are a set.
render_vars(fr) ==
  LET names == fr.co_names \cup {"__name__", "__file__"}
  IN  Done(<<[k |-> "globals_table", title |-> "Globals (selected)",
              global_rows |-> {<<n, fr.globals[n]>> : n \in names \cap DOMAIN fr.globals}],
             [k |-> "locals_table", title |-> "Locals", rows |-> Sorted(fr.locals)]>>)

\* The step of a stop's rendering that meets an unexpected exception (an
\* Exception raised by the library or by the frame's own objects), if any.
Faults == {"none", "source", "vars", "stack"}

Step(fault, name, r) == IF fault = name THEN Raised(<<>>) ELSE r

\* The try block of interaction.
TryRender(d, cfg, stk, frame, fault) ==
  IF frame = 0 THEN Done(<<>>)
  ELSE
    Then(Step(fault, "source",
              render_source_block(stk[frame].file, stk[frame].line, d.context_lines)),
    Then(IF d.show_locals THEN Step(fault, "vars", render_vars(stk[frame])) ELSE Done(<<>>),
         IF DictGet(cfg, "show_stack", TRUE)
         THEN Step(fault, "stack", render_stack(stk, d.curframe)) ELSE Done(<<>>)))

\* interaction with no except clause.
M_Guarded(r) == r

\* try: ... except Exception: console.print(Traceback.from_exception(...))
Guarded(r) == IF r.raised THEN Done(r.items \o <<[k |-> "traceback"]>>) ELSE r

\* Pdb.setup(frame, tb): the frame the command loop starts at.
setup(stk, frame) == IF frame # 0 THEN frame ELSE Len(stk)

\* super().interaction(frame, tb) up to its prompt: the call, then the stack
\* entry Pdb prints through message().
super_interaction(frame, tb) ==
  Done(<<[k |-> "interaction", frame |-> frame, tb |-> tb], [k |-> "message"]>>)

\* RichPdb.interaction(frame, traceback_obj) up to the prompt.
interaction(d, cfg, stk, frame, tb, fault) ==
  Then(Done(<<[k |-> "rule"]>>),
  Then(Guarded(TryRender(d, cfg, stk, frame, fault)),
       super_interaction(frame, tb)))

\* -------------------------------------------------------------- commands
\* The expressions typed at the prompt: x, 1/0 and {}['[/]'].
ExprX == <<"x">>

ExprDiv == <<"1", "/", "0">>

ExprKey == <<"{", "}", "[", "'", "[", "/", "]", "'", "]">>

\* The arguments of p: none, blanks, and the expressions.
PArgs == {<<>>, <<" ", " ">>, ExprX, ExprDiv, ExprKey}

RECURSIVE Lookup(_, _)
\* The binding of a name in f_locals, <<>> if it has none.
Lookup(locals, name) ==
  IF locals = <<>> THEN <<>>
  ELSE IF Head(locals)[1] = name THEN <<Head(locals)[2]>>
  ELSE Lookup(Tail(locals), name)

\* Pdb._getval(arg): eval in the current frame; the value, or the str of the
\* exception raised (NameError, ZeroDivisionError, KeyError: the repr of the key).
getval(arg, fr) ==
  CASE arg = ExprX ->
         LET v == Lookup(fr.locals, <<120>>)
         IN  IF v # <<>> THEN [ok |-> TRUE, val |-> v[1], msg |-> <<>>]
             ELSE [ok |-> FALSE, val |-> "", msg |-> <<"name 'x' is not defined">>]
    [] arg = ExprDiv -> [ok |-> FALSE, val |-> "", msg |-> <<"division by zero">>]
    [] arg = ExprKey -> [ok |-> FALSE, val |-> "", msg |-> <<"'", "[", "/", "]", "'">>]

\* What a command hands back to the loop: printed items, whether it raised, how
\* many evaluations it made, its return value.
CmdResult(r, evals) == [items |-> r.items, raised |-> r.raised, evals |-> evals, ret |-> "None"]

\* do_p(arg).  _getval reports a failure on stdout itself before re-raising.
do_p(fr, arg) ==
  IF Strip(arg) = <<>>
  THEN CmdResult(PrintMarkup("usage", Italic \o <<"Usage: p <expr>">> \o CloseTag), 0)
  ELSE
    LET v == getval(arg, fr)
    IN  IF v.ok THEN CmdResult(Done(<<[k |-> "pretty", val |-> v.val]>>), 1)
        ELSE CmdResult(Then(Done(<<[k |-> "stdout_error"]>>),
                            PrintMarkup("error", Red \o <<"Error:">> \o CloseTag \o <<" ">> \o v.msg)),
                       1)

\* Whether cmdloop ends on a command's return value.
LoopStops(ret) == ret = "True"

\* ----------------------------------------------------------------- state
VARIABLES
  pc,       \* "import", "idle", "tracing", "loop" (at the prompt) or "crashed"
  config,   \* RichPdb.config
  cfgfile,  \* what load_config found at ~/.nicerpdb.toml
  dbg,      \* the RichPdb session, <<>> when there is none
  stack,    \* the call stack of the paused program, outermost frame first
  last,     \* the handler that ran last, with its inputs
  out,      \* what that handler printed, in order
  hsrc,     \* excerpt harness: the lines of a file
  hln,      \* excerpt harness: a frame's f_lineno
  hres,     \* excerpt harness: the excerpt
  hpc       \* excerpt harness: "off", "start" or "done"

vars == <<pc, config, cfgfile, dbg, stack, last, out, hsrc, hln, hres, hpc>>

session == <<pc, config, cfgfile, dbg, stack, last, out>>

harness == <<hsrc, hln, hres, hpc>>

NoTb == [kind |-> "None", depth |-> 0]

Init ==
  /\ pc = "import"
  /\ config = <<>>
  /\ cfgfile = <<>>
  /\ dbg = <<>>
  /\ stack = <<>>
  /\ last = [op |-> "none"]
  /\ out = <<>>
  /\ hsrc = <<>> /\ hln = 0 /\ hres = <<>> /\ hpc = "off"

\* The class body of RichPdb runs load_config() once, at import.
Import ==
  /\ pc = "import"
  /\ \E file \in ConfigFiles :
       LET r == load_config(file)
       IN  /\ config' = r.cfg
           /\ cfgfile' = [exists |-> file.exists, readable |-> file.readable,
                          wellformed |-> file.wellformed]
           /\ out' = r.out
           /\ pc' = IF r.raised THEN "crashed" ELSE "idle"
  /\ last' = [op |-> "load_config"]
  /\ UNCHANGED <<dbg, stack, harness>>

\* set_trace(show_locals, context_lines): a session that traces from the caller.
set_trace(show_locals, context_lines, cfg) ==
  [RichPdb_init(show_locals, context_lines, cfg) EXCEPT !.traced = TRUE]

SetTrace ==
  /\ pc = "idle"
  /\ \E sl \in {<<>>, <<TRUE>>, <<FALSE>>}, cl \in {<<>>, <<0>>, <<2>>} :
       dbg' = set_trace(sl, cl, config)
  /\ pc' = "tracing"
  /\ last' = [op |-> "set_trace"]
  /\ out' = <<>>
  /\ stack' = <<>>
  /\ UNCHANGED <<config, cfgfile, harness>>

\* breakpoint(): set_trace() with no argument.
Breakpoint ==
  /\ pc = "idle"
  /\ dbg' = set_trace(<<>>, <<>>, config)
  /\ pc' = "tracing"
  /\ last' = [op |-> "set_trace"]
  /\ out' = <<>>
  /\ stack' = <<>>
  /\ UNCHANGED <<config, cfgfile, harness>>

\* A stop: the handler, and where it leaves the session.
StopAt(d, stk, frame, tb, fault) ==
  LET r == interaction(d, config, stk, frame, tb, fault)
  IN  /\ out' = r.items
      /\ stack' = stk
      /\ pc' = IF r.raised THEN "crashed" ELSE "loop"
      /\ dbg' = IF r.raised THEN d ELSE [d EXCEPT !.curframe = setup(stk, frame)]
      /\ last' = [op |-> "interaction", frame |-> frame, tb |-> tb, fault |-> fault]

\* The traced program reaches a line to stop at: interaction(frame, None).
Stop ==
  /\ pc = "tracing"
  /\ \E stk \in Stacks, fault \in Faults : StopAt(dbg, stk, Len(stk), NoTb, fault)
  /\ UNCHANGED <<config, cfgfile, harness>>

\* The hook taking the first element of the exception info.
M_HookTb(excinfo) == excinfo[1]

\* *_, tb = call.excinfo._excinfo
HookTb(excinfo) == excinfo[Len(excinfo)]

\* pytest_exception_interact: a failing test whose traceback holds the frames stk.
PytestHook ==
  /\ pc = "idle"
  /\ \E stk \in Stacks, fault \in Faults :
       LET excinfo == <<[kind |-> "type", depth |-> 0], [kind |-> "value", depth |-> 0],
                        [kind |-> "traceback", depth |-> Len(stk)]>>
       IN  StopAt(RichPdb_init(<<TRUE>>, <<20>>, config), stk, 0, HookTb(excinfo), fault)
  /\ UNCHANGED <<config, cfgfile, harness>>

\* A command at the prompt, once its handler has run.
AfterCmd(name, arg, r) ==
  /\ out' = r.items
  /\ last' = [op |-> name, arg |-> arg, evals |-> r.evals, ret |-> r.ret]
  /\ pc' = IF r.raised THEN "crashed" ELSE IF LoopStops(r.ret) THEN "idle" ELSE "loop"
  /\ UNCHANGED <<config, cfgfile, stack, harness>>

CmdP ==
  /\ pc = "loop"
  /\ \E arg \in PArgs : AfterCmd("p", arg, do_p(stack[dbg.curframe], arg))
  /\ UNCHANGED dbg

\* do_where / do_w
CmdWhere ==
  /\ pc = "loop"
  /\ AfterCmd("where", <<>>, CmdResult(render_stack(stack, dbg.curframe), 0))
  /\ UNCHANGED dbg

\* do_list / do_l
CmdList ==
  /\ pc = "loop"
  /\ LET fr == stack[dbg.curframe]
     IN  AfterCmd("list", <<>>,
                  CmdResult(render_source_block(fr.file, fr.line, dbg.context_lines), 0))
  /\ UNCHANGED dbg

\* do_longlist / do_ll
CmdLongList ==
  /\ pc = "loop"
  /\ LET fr == stack[dbg.curframe]
     IN  AfterCmd("longlist", <<>>, CmdResult(render_full_file(fr.file, fr.line), 0))
  /\ UNCHANGED dbg

\* Pdb.do_up, Pdb.do_down: select the caller, or the callee, of the current frame.
CmdUp ==
  /\ pc = "loop"
  /\ IF dbg.curframe = 1
     THEN /\ AfterCmd("up", <<>>, CmdResult(Done(<<[k |-> "stdout_error"]>>), 0))
          /\ UNCHANGED dbg
     ELSE /\ AfterCmd("up", <<>>, CmdResult(Done(<<[k |-> "message"]>>), 0))
          /\ dbg' = [dbg EXCEPT !.curframe = @ - 1]

CmdDown ==
  /\ pc = "loop"
  /\ IF dbg.curframe = Len(stack)
     THEN /\ AfterCmd("down", <<>>, CmdResult(Done(<<[k |-> "stdout_error"]>>), 0))
          /\ UNCHANGED dbg
     ELSE /\ AfterCmd("down", <<>>, CmdResult(Done(<<[k |-> "message"]>>), 0))
          /\ dbg' = [dbg EXCEPT !.curframe = @ + 1]

\* Pdb.do_continue: the loop ends, Pdb.interaction ends in forget(); a traced
\* program runs on and may stop again.
CmdContinue ==
  /\ pc = "loop"
  /\ out' = <<>>
  /\ last' = [op |-> "continue"]
  /\ \/ dbg.traced /\ pc' = "tracing" /\ dbg' = [dbg EXCEPT !.curframe = 0]
     \/ pc' = "idle" /\ dbg' = <<>>
  /\ stack' = <<>>
  /\ UNCHANGED <<config, cfgfile, harness>>

\* Pdb.do_quit
CmdQuit ==
  /\ pc = "loop"
  /\ out' = <<>>
  /\ last' = [op |-> "quit"]
  /\ pc' = "idle"
  /\ dbg' = <<>>
  /\ stack' = <<>>
  /\ UNCHANGED <<config, cfgfile, harness>>

Next ==
  \/ Import
  \/ SetTrace
  \/ Breakpoint
  \/ Stop
  \/ PytestHook
  \/ CmdP
  \/ CmdWhere
  \/ CmdList
  \/ CmdLongList
  \/ CmdUp
  \/ CmdDown
  \/ CmdContinue
  \/ CmdQuit

Spec == Init /\ [][Next]_vars

\* ------------------------------------------------------ excerpt harness
X(n) == Rep("x", n)

\* Source lines: blank; indented; an indented "..."; 38, 39 and 40 characters;
\* 121 characters; 114 characters and "...".
SrcLines ==
  { <<"\n">>,
    <<" ", " ">> \o X(2) \o <<" ", "\n">>,
    <<" ", " ", " ", " ">> \o Ellipsis \o <<"\n">>,
    X(38) \o <<"\n">>,
    X(39) \o <<"\n">>,
    X(40) \o <<"\n">>,
    X(121) \o <<"\n">>,
    X(114) \o Ellipsis \o <<"\n">> }

\* The files of at most MaxSrcLines such lines; the empty one cannot be read.
SrcFiles == UNION {[1..n -> SrcLines] : n \in 0..MaxSrcLines}

InitExcerpt ==
  /\ pc = "import"
  /\ config = <<>>
  /\ cfgfile = <<>>
  /\ dbg = <<>>
  /\ stack = <<>>
  /\ last = [op |-> "none"]
  /\ out = <<>>
  /\ hsrc \in SrcFiles
  /\ hln \in 0..(MaxSrcLines + 1)
  /\ hres = <<>>
  /\ hpc = "start"

\* One row of _render_stack builds its excerpt from the frame's file and line.
RowExcerpt ==
  /\ hpc = "start"
  /\ hres' = Excerpt(hsrc, hln)
  /\ hpc' = "done"
  /\ UNCHANGED <<hsrc, hln, session>>

NextExcerpt == RowExcerpt

SpecExcerpt == InitExcerpt /\ [][NextExcerpt]_vars

\* ----------------------------------------------------------- properties
Kinds(items) == [i \in 1..Len(items) |-> items[i].k]

Count(items, kind) == Cardinality({i \in 1..Len(items) : items[i].k = kind})

\* The last handler was a stop entered with a frame.
FrameStop == last.op = "interaction" /\ last.frame # 0

\* The step the stop's fault was set on ran, and so raised.
FaultHit ==
  \/ last.fault = "source"
  \/ last.fault = "vars" /\ dbg.show_locals
  \/ last.fault = "stack" /\ config["show_stack"]

\* The last handler called _render_source_block: the stop, or list.
SourceCall == last.op = "list" \/ (FrameStop /\ last.fault # "source")

\* The frame that call was made for, and what it printed.
SourceFrame == stack[IF last.op = "interaction" THEN last.frame ELSE dbg.curframe]

SourceItem == IF last.op = "interaction" THEN out[2] ELSE out[1]

\* A line without its line end.
Bare(line) == SubSeq(line, 1, Len(line) - 1)

\* C1: for a file of N >= 1 lines, a target line in 1..N and a context >= 0, the
\* windowed render shows exactly the lines max(1, line-context) to
\* min(N, line+context), numbered from the first of them, and highlights the
\* target line, which is one of them.
C1_WindowIsExact ==
  (/\ SourceCall
   /\ getlines(SourceFrame.file) # <<>>
   /\ SourceFrame.line \in 1..Len(getlines(SourceFrame.file))
   /\ dbg.context_lines >= 0)
  => LET lines == getlines(SourceFrame.file)
         line  == SourceFrame.line
         lo    == Max(1, line - dbg.context_lines)
         hi    == Min(Len(lines), line + dbg.context_lines)
         shown == SplitLines(SourceItem.code, <<>>)
     IN  /\ SourceItem.k = "panel"
         /\ Len(shown) = hi - lo + 1
         /\ \A i \in 1..Len(shown) : shown[i] = Bare(lines[lo + i - 1])
         /\ SourceItem.start_line = lo
         /\ SourceItem.highlight_lines = {line}
         /\ lo <= line /\ line <= hi

\* C1 witness: a window that is cut at neither end and holds three lines.
C1_Witness ==
  /\ SourceCall
  /\ getlines(SourceFrame.file) # <<>>
  /\ SourceItem.k = "panel"
  /\ SourceItem.start_line = 2
  /\ Len(SplitLines(SourceItem.code, <<>>)) = 3
  /\ Len(getlines(SourceFrame.file)) > 4

\* C2: when a render step of a stop entered with a frame raises, the stop does
\* not crash: the traceback of the failure is printed where the step's output
\* would be, nothing of that step or a later one is, and the inherited
\* interaction is started once, with the stop's frame.
C2_RenderFailureIsContained ==
  (FrameStop /\ FaultHit)
  => /\ pc = "loop"
     /\ Count(out, "traceback") = 1
     /\ Count(out, "interaction") = 1
     /\ LET n == Len(out)
        IN  /\ n >= 4
            /\ out[n - 2].k = "traceback"
            /\ out[n - 1].k = "interaction"
            /\ out[n - 1].frame = last.frame
            /\ out[n - 1].tb = last.tb
     /\ Count(out, "stack_table") = 0
     /\ last.fault \in {"source", "vars"} => Count(out, "locals_table") = 0
     /\ last.fault = "source" => Count(out, "panel") + Count(out, "notice") = 0

\* C2 witness: the variables step raised after the source panel was printed.
C2_Witness ==
  /\ FrameStop /\ FaultHit /\ last.fault = "vars"
  /\ pc = "loop"
  /\ Count(out, "panel") = 1

\* The stack table the last handler printed, if it printed one.
StackTables == {i \in 1..Len(out) : out[i].k = "stack_table"}

\* C3: a stack table printed for a session stopped at frame f (at the stop, or
\* by where) has one row per frame from f up to the outermost caller, numbered
\* from 1, outermost caller first and f last.
C3_StackRowsPerFrame ==
  (dbg # <<>> /\ dbg.traced /\ (FrameStop \/ last.op = "where"))
  => \A t \in StackTables :
       LET rows == out[t].stack_rows
       IN  /\ Len(rows) = Len(stack)
           /\ \A i \in 1..Len(rows) :
                /\ rows[i].idx = Str(i)
                /\ rows[i].func = stack[i].func
                /\ rows[i].loc = Chars(stack[i].file) \o <<":">> \o Str(stack[i].line)

\* C4: a stop entered with frame=None and the traceback taken from the end of
\* the exception info prints the banner and nothing else of its own, and calls
\* the inherited interaction once, with frame=None and that traceback.
C4_TracebackOnlyStop ==
  (last.op = "interaction" /\ last.frame = 0)
  => /\ pc = "loop"
     /\ Kinds(out) = <<"rule", "interaction", "message">>
     /\ out[2].frame = 0
     /\ out[2].tb = [kind |-> "traceback", depth |-> Len(stack)]

\* C4 witness: the test-failure hook, on a traceback of depth 3.
C4_Witness ==
  /\ last.op = "interaction" /\ last.frame = 0
  /\ Len(stack) = 3
  /\ pc = "loop"

\* C5: a stop entered with a frame, no step failing, prints in this order the
\* banner, the source view of the frame's file and line with the session's
\* context_lines, then only if show_locals the globals table and the locals
\* table (the frame's bindings, ascending by name), then only if show_stack
\* the stack table; the inherited interaction starts after all of them.
C5_StopOutputOrder ==
  (FrameStop /\ ~FaultHit)
  => LET fr    == stack[last.frame]
         lines == getlines(fr.file)
     IN  /\ pc = "loop"
         /\ Kinds(out) =
              <<"rule", IF lines = <<>> THEN "notice" ELSE "panel">>
                \o (IF dbg.show_locals THEN <<"globals_table", "locals_table">> ELSE <<>>)
                \o (IF config["show_stack"] THEN <<"stack_table">> ELSE <<>>)
                \o <<"interaction", "message">>
         /\ lines # <<>> =>
              /\ out[2].title = Chars(fr.file) \o <<":">> \o Str(fr.line)
              /\ out[2].start_line = Max(1, fr.line - dbg.context_lines)
              /\ Len(SplitLines(out[2].code, <<>>)) =
                   Min(Len(lines), fr.line + dbg.context_lines)
                     - Max(1, fr.line - dbg.context_lines) + 1
         /\ dbg.show_locals =>
              LET rows == out[4].rows
              IN  /\ Len(rows) = Len(fr.locals)
                  /\ {rows[i] : i \in 1..Len(rows)} = {fr.locals[i] : i \in 1..Len(fr.locals)}
                  /\ \A i \in 1..(Len(rows) - 1) : StrLess(rows[i][1], rows[i + 1][1])

\* C5 witness: locals bound as y then x are listed as x then y, between the
\* globals table and the stack table.
C5_Witness ==
  /\ FrameStop /\ ~FaultHit /\ pc = "loop"
  /\ dbg.show_locals /\ config["show_stack"]
  /\ Len(out) = 7
  /\ out[4].rows = << <<(<<120>>), "1">>, <<(<<121>>), "'a'">> >>
  /\ stack[last.frame].locals[1][1] = <<121>>

\* load_config found a file and could not read or parse it.
ConfigFailed == cfgfile # <<>> /\ cfgfile.exists /\ ~(cfgfile.readable /\ cfgfile.wellformed)

\* C6: when the configuration file exists and reading or parsing it fails,
\* load_config raises nothing, prints one warning and returns the built-in
\* defaults, and a session made with no argument has show_locals True and
\* context_lines 3.
C6_BrokenConfigGivesDefaults ==
  ConfigFailed
  => /\ config = [context_lines |-> 3, show_locals |-> TRUE, show_stack |-> TRUE]
     /\ last.op = "load_config" => (pc = "idle" /\ Kinds(out) = <<"warning">>)
     /\ (dbg # <<>> /\ dbg.args.show_locals = <<>> /\ dbg.args.context_lines = <<>>)
          => (dbg.show_locals = TRUE /\ dbg.context_lines = 3)

\* C6 witness: a session made with no argument, stopped, after a failed load.
C6_Witness ==
  /\ ConfigFailed /\ ~cfgfile.wellformed
  /\ pc = "loop"
  /\ dbg.args.show_locals = <<>> /\ dbg.args.context_lines = <<>>

\* The last handler rendered source for a frame: the stop, list or longlist.
AnySourceCall == SourceCall \/ last.op = "longlist"

C8_ArgumentsOverConfig ==
  /\ dbg # <<>> =>
       /\ dbg.args.show_locals # <<>> => dbg.show_locals = dbg.args.show_locals[1]
       /\ dbg.args.show_locals = <<>> => dbg.show_locals = config["show_locals"]
       /\ dbg.args.context_lines # <<>> => dbg.context_lines = dbg.args.context_lines[1]
       /\ dbg.args.context_lines = <<>> => dbg.context_lines = config["context_lines"]
  /\ (FrameStop /\ ~FaultHit) => (Count(out, "stack_table") = 1 <=> config["show_stack"] = TRUE)

\* C8 witness: show_locals=False and context_lines=0 given against a
\* configuration of True and 3, at a stop that renders the stack.
C8_Witness ==
  /\ FrameStop /\ ~FaultHit
  /\ dbg.args.show_locals = <<FALSE>> /\ config["show_locals"] = TRUE
  /\ dbg.args.context_lines = <<0>> /\ config["context_lines"] = 3
  /\ dbg.show_locals = FALSE /\ dbg.context_lines = 0
  /\ Count(out, "stack_table") = 1

\* C9: p with an argument whose evaluation raises prints an error line, lets
\* nothing propagate and does not end the loop; p with an empty or blank
\* argument evaluates nothing and prints only the usage hint.
C9_PNeverPropagates ==
  last.op = "p"
  => /\ (Strip(last.arg) # <<>> /\ ~getval(last.arg, stack[dbg.curframe]).ok)
          => /\ pc = "loop"
             /\ Count(out, "error") = 1
             /\ ~LoopStops(last.ret)
     /\ Strip(last.arg) = <<>> => (last.evals = 0 /\ Kinds(out) = <<"usage">> /\ pc = "loop")

\* The lines of src next to line ln: ln - 1, ln and ln + 1, those the file has.
Neighbours(src, ln) == {i \in 1..Len(src) : i >= ln - 1 /\ i <= ln + 1}

RECURSIVE InOrder(_, _, _)
\* The stripped lines of src numbered from i that are in the set keep.
InOrder(src, keep, i) ==
  IF i > Len(src) THEN <<>>
  ELSE (IF i \in keep THEN <<Strip(src[i])>> ELSE <<>>) \o InOrder(src, keep, i + 1)

\* The excerpt before any cut.
RawExcerpt == JoinSpace(InOrder(hsrc, Neighbours(hsrc, hln), 1))

EndsWithEllipsis(s) == Len(s) >= 3 /\ SubSeq(s, Len(s) - 2, Len(s)) = Ellipsis

\* C10 as stated: the excerpt is at most 120 characters long, ends with the
\* ellipsis marker exactly when the uncut excerpt was longer than 120, and is
\* empty for a file with no lines.
C10_EllipsisIffCut ==
  hpc = "done"
  => /\ Len(hres) <= 120
     /\ EndsWithEllipsis(hres) <=> Len(RawExcerpt) > 120
     /\ hsrc = <<>> => hres = <<>>

\* C10 amended: the excerpt is built from the at most 3 stripped lines next to
\* the frame's line, joined by single spaces; it is at most 120 characters
\* long; when the uncut excerpt is longer than 120 it is its first 117
\* characters and the ellipsis marker, and otherwise it is the uncut excerpt
\* itself (which may end in "..." of its own); it is empty for a file with no
\* lines.
C10_ExcerptCut ==
  hpc = "done"
  => /\ Cardinality(Neighbours(hsrc, hln)) <= 3
     /\ Len(hres) <= 120
     /\ Len(RawExcerpt) > 120 =>
          /\ Len(hres) = 120
          /\ SubSeq(hres, 1, 117) = SubSeq(RawExcerpt, 1, 117)
          /\ EndsWithEllipsis(hres)
     /\ Len(RawExcerpt) <= 120 => hres = RawExcerpt
     /\ hsrc = <<>> => hres = <<>>

\* C10 witness: three lines of 40, 40 and 39 characters make 121, and are cut.
C10_Witness ==
  /\ hpc = "done"
  /\ Len(hsrc) = 3 /\ hln = 2
  /\ Len(RawExcerpt) = 121
  /\ Len(hres) = 120
  /\ EndsWithEllipsis(hres)

====
